---- MODULE Spec2Model ----
(***************************************************************************)
(* A model of the quantitative core of the trading system:                 *)
(*   - BacktestEngine.run_backtest      (src/src/backtest_engine.py)       *)
(*   - RiskManager                      (src/src/risk_limits.py)           *)
(*                                                                         *)
(* Numbers.  The program computes with Python floats.  The model computes  *)
(* with exact rationals, a pair <<n, d>> in lowest terms with d > 0, so    *)
(* every statement below is a statement about the real-number value of the *)
(* program's expressions; rounding, overflow, inf and nan are outside the  *)
(* model.  A division by zero of Python floats raises ZeroDivisionError    *)
(* and is modelled as that exception wherever the program can reach it.    *)
(***************************************************************************)
EXTENDS Integers, Sequences, FiniteSets, TLC

(***************************************************************************)
(* Bounds of the model.                                                    *)
(***************************************************************************)
MaxCandles == 3
MaxPrice == 3
MaxLabel == 3
MaxCapital == 2
MaxEntry == 2
MaxLoss == 3
MaxSeries == 5
MaxValue == 2
MaxWindow == 2
MaxSpan == 2

(***************************************************************************)
(* Rational arithmetic (the arithmetic of the float expressions).          *)
(***************************************************************************)
Abs(n) == IF n < 0 THEN -n ELSE n

RECURSIVE GCD(_, _)
GCD(a, b) == IF b = 0 THEN a ELSE GCD(b, a % b)

\* The rational n/d (d # 0) in lowest terms with a positive denominator.
Norm(n, d) ==
    IF d = 1 THEN <<n, 1>>
    ELSE LET g == GCD(Abs(n), Abs(d))
             s == IF d < 0 THEN -1 ELSE 1
         IN  <<(s * n) \div g, (s * d) \div g>>

R(n) == <<n, 1>>
Zero == R(0)
RAdd(a, b) == IF a[2] = b[2] THEN Norm(a[1] + b[1], a[2]) ELSE Norm(a[1] * b[2] + b[1] * a[2], a[2] * b[2])
RSub(a, b) == IF a[2] = b[2] THEN Norm(a[1] - b[1], a[2]) ELSE Norm(a[1] * b[2] - b[1] * a[2], a[2] * b[2])
RMul(a, b) == Norm(a[1] * b[1], a[2] * b[2])
\* a / b, for b # 0
RDiv(a, b) == Norm(a[1] * b[2], a[2] * b[1])
RLt(a, b) == a[1] * b[2] < b[1] * a[2]
RLe(a, b) == a[1] * b[2] <= b[1] * a[2]
RAbs(a) == <<Abs(a[1]), a[2]>>
IsZero(a) == a[1] = 0

RECURSIVE RSum(_)
RSum(s) == IF s = <<>> THEN Zero ELSE RAdd(s[1], RSum(Tail(s)))

VARIABLES
    \* ---- BacktestEngine.run_backtest ----
    initial_capital,    \* self.initial_capital
    df,                 \* the candle frame: a sequence of rows [idx, close]
    bt_pc,              \* "loop" while iterating, "done" once the report is returned
    i,                  \* number of rows already iterated
    balance,            \* local balance
    position,           \* local position: None or {'entry', 'size'}
    trades,             \* local trades: the pnl of every closed trade
    signal,             \* what strategy_func returned on the last step
    signal0,            \* what strategy_func returned on the first step
    calls,              \* for every step, the number of rows strategy_func received
    report,             \* the returned dict
    \* ---- RiskManager ----
    max_daily_loss,     \* self.max_daily_loss
    max_position_size,  \* self.max_position_size
    current_loss,       \* self.current_loss
    positions,          \* self.positions: symbol -> position dict
    last,               \* the last call on the instance: its arguments and outcome
    \* ---- TechnicalIndicators (static, pure methods) ----
    ind_call,           \* the call: method (or "none" before it runs) and arguments
    ind_ret             \* what the call returned

btvars == <<initial_capital, df, bt_pc, i, balance, position, trades, signal, signal0,
            calls, report>>
rmvars == <<max_daily_loss, max_position_size, current_loss, positions, last>>
indvars == <<ind_call, ind_ret>>
vars == <<btvars, rmvars, indvars>>

(***************************************************************************)
(* BacktestEngine.run_backtest                                             *)
(***************************************************************************)
\* What strategy_func may return: the three signals, and "NONE" for any
\* other value (None, 'buy', ...), which the loop compares unequal to both.
Signals == {"BUY", "SELL", "HOLD", "NONE"}

\* position = None
NoPosition == [open |-> FALSE, entry |-> Zero, size |-> Zero]

\* `not position`: None is falsy, the two-key dict is truthy whatever it holds.
IsOpen(pos) == pos.open

\* The candle frames: up to MaxCandles rows in chronological order, each with
\* a positive close and an integer index label; labels increase along the
\* frame (0, 1, 2, ... for a default RangeIndex; anything else after rows
\* were dropped or the frame was sliced).
Candle == [idx : 0..MaxLabel, close : 1..MaxPrice]
Frames ==
    UNION {{f \in [1..n -> Candle] : \A k \in 1..(n - 1) : f[k].idx < f[k + 1].idx}
           : n \in 0..MaxCandles}

\* len(df.iloc[:stop]) for a frame of n rows: Python's slice rule.
SliceLen(stop, n) ==
    IF stop < 0 THEN (IF n + stop < 0 THEN 0 ELSE n + stop)
    ELSE (IF stop > n THEN n ELSE stop)

\* The rows handed to strategy_func for the row labelled idx: df.iloc[:idx+1],
\* always a prefix of the frame, given by its length.
StrategyView(idx, n) == SliceLen(idx + 1, n)

\* Pnl with the subtraction the wrong way round.
Pnl_Reversed(close, pos) == RMul(RSub(pos.entry, close), pos.size)

\* pnl = (row['close'] - position['entry']) * position['size']
Pnl(close, pos) == RMul(RSub(close, pos.entry), pos.size)

\* NextPosition without the `not position` test: a BUY re-enters at the
\* current close even though a position is open.
NextPosition_Reenters(sig, pos, bal, close) ==
    IF sig = "BUY"
    THEN [open |-> TRUE, entry |-> close, size |-> RDiv(bal, close)]
    ELSE IF sig = "SELL" /\ pos.open THEN NoPosition
    ELSE pos

\* The position after one iteration of the loop body.
NextPosition(sig, pos, bal, close) ==
    IF sig = "BUY" /\ ~IsOpen(pos)
    THEN [open |-> TRUE, entry |-> close, size |-> RDiv(bal, close)]
    ELSE IF sig = "SELL" /\ IsOpen(pos) THEN NoPosition
    ELSE pos

\* The balance after one iteration of the loop body.
NextBalance(sig, pos, bal, close) ==
    IF sig = "BUY" /\ ~IsOpen(pos) THEN bal
    ELSE IF sig = "SELL" /\ IsOpen(pos) THEN RAdd(bal, Pnl(close, pos))
    ELSE bal

\* The trade log after one iteration of the loop body.
NextTrades(sig, pos, log, close) ==
    IF sig = "BUY" /\ ~IsOpen(pos) THEN log
    ELSE IF sig = "SELL" /\ IsOpen(pos) THEN Append(log, Pnl(close, pos))
    ELSE log

\* len([t for t in trades if t > 0])
RECURSIVE Wins(_)
Wins(log) ==
    IF log = <<>> THEN 0
    ELSE (IF RLt(Zero, log[1]) THEN 1 ELSE 0) + Wins(Tail(log))

NoReport == [final_balance |-> Zero, total_return |-> Zero, trades |-> 0, win_rate |-> Zero]

\* Report that counts a position still open at the end as a trade.
Report_CountsOpen(cap, bal, pos, log) ==
    [final_balance |-> bal,
     total_return  |-> RMul(RDiv(RSub(bal, cap), cap), R(100)),
     trades        |-> Len(log) + (IF pos.open THEN 1 ELSE 0),
     win_rate      |-> IF log # <<>> THEN Norm(Wins(log), Len(log)) ELSE Zero]

\* The dict run_backtest returns.
Report(cap, bal, pos, log) ==
    [final_balance |-> bal,
     total_return  |-> RMul(RDiv(RSub(bal, cap), cap), R(100)),
     trades        |-> Len(log),
     win_rate      |-> IF log # <<>> THEN Norm(Wins(log), Len(log)) ELSE Zero]

\* The outcome of a call on the risk manager: the operation, whether the
\* symbol it was given had a position when it was called, whether it raised,
\* and what it returned (bool for the three predicates, num for
\* calculate_position_size, and for close_position either the empty dict or
\* {symbol, pnl, pnl_pct, quantity}).
Outcome(op) ==
    [op |-> op, had |-> FALSE, raised |-> FALSE, bool |-> FALSE, num |-> Zero, empty |-> TRUE,
     symbol |-> "", pnl |-> Zero, pnl_pct |-> Zero, quantity |-> Zero]

NoCall == Outcome("init")

\* self.positions = {}
EmptyTable == [s \in {} |-> Zero]

\* RiskManager.__init__(max_daily_loss, max_position_size).
RMConstructed(mdl, mps) ==
    /\ max_daily_loss = mdl
    /\ max_position_size = mps
    /\ current_loss = Zero
    /\ positions = EmptyTable
    /\ last = NoCall

\* A TechnicalIndicators call that has not run yet, with its arguments, and
\* the result slots before it returns.
IndicatorCall(prices, window, fast, slow, sig) ==
    [op |-> "none", prices |-> prices, window |-> window,
     fast |-> fast, slow |-> slow, signal |-> sig]

NoIndicatorResult ==
    [support |-> <<>>, resistance |-> <<>>,
     macd_line |-> <<>>, signal_line |-> <<>>, histogram |-> <<>>]

\* No indicator is being computed: the state the indicator variables keep
\* while a backtest runs or the risk manager is called.
IndIdle ==
    /\ ind_call = IndicatorCall(<<>>, 0, 1, 1, 1)
    /\ ind_ret = NoIndicatorResult

\* BacktestEngine(initial_capital) and the entry of run_backtest(df, f).
BTConstructed(cap, frame) ==
    /\ initial_capital = cap
    /\ df = frame
    /\ bt_pc = "loop"
    /\ i = 0
    /\ balance = cap
    /\ position = NoPosition
    /\ trades = <<>>
    /\ signal = "NONE"
    /\ signal0 = "NONE"
    /\ calls = <<>>
    /\ report = NoReport

BTInit ==
    /\ \E c \in 1..MaxCapital, frame \in Frames : BTConstructed(R(c), frame)
    /\ RMConstructed(<<1, 20>>, <<1, 10>>)
    /\ IndIdle

\* One iteration of `for idx, row in df.iterrows()`.
Step ==
    /\ bt_pc = "loop"
    /\ i < Len(df)
    /\ \E sig \in Signals :
         LET row == df[i + 1]
             close == R(row.close)
         IN  /\ calls' = Append(calls, StrategyView(row.idx, Len(df)))
             /\ signal' = sig
             /\ signal0' = IF i = 0 THEN sig ELSE signal0
             /\ position' = NextPosition(sig, position, balance, close)
             /\ balance' = NextBalance(sig, position, balance, close)
             /\ trades' = NextTrades(sig, position, trades, close)
    /\ i' = i + 1
    /\ UNCHANGED <<initial_capital, df, bt_pc, report>>
    /\ UNCHANGED rmvars
    /\ UNCHANGED indvars

\* The loop is exhausted: compute total_return and return the report.
Finish ==
    /\ bt_pc = "loop"
    /\ i = Len(df)
    /\ report' = Report(initial_capital, balance, position, trades)
    /\ bt_pc' = "done"
    /\ UNCHANGED <<initial_capital, df, i, balance, position, trades, signal, signal0, calls>>
    /\ UNCHANGED rmvars
    /\ UNCHANGED indvars

BTNext == Step \/ Finish

SpecBacktest == BTInit /\ [][BTNext]_vars

(***************************************************************************)
(* Claims about run_backtest, checked under SpecBacktest.                  *)
(***************************************************************************)
\* The close of the row the next iteration reads.
CurClose == R(df[i + 1].close)

\* The closes of the frame increase strictly.
StrictlyIncreasing == \A k \in 1..(Len(df) - 1) : df[k].close < df[k + 1].close

\* C1: run_backtest holds a single position slot, and an iteration changes it
\* in two ways only: BUY with no position opens one with entry = close and
\* size * close = balance, leaving balance and trade log alone; SELL with an
\* open position clears it.  Every other signal/position combination leaves
\* balance, position and trade log unchanged.
C1_PositionTransitions ==
    [][i' = i + 1 =>
        /\ position' = NoPosition \/ position'.open
        /\ IF signal' = "BUY" /\ position = NoPosition
           THEN /\ position'.open
                /\ position'.entry = CurClose
                /\ RMul(position'.size, CurClose) = balance
                /\ balance' = balance
                /\ trades' = trades
           ELSE IF signal' = "SELL" /\ position # NoPosition
           THEN position' = NoPosition
           ELSE /\ balance' = balance
                /\ position' = position
                /\ trades' = trades]_vars

\* C1 witness: a BUY arrived while an older position was open and was ignored.
C1_Witness ==
    /\ i >= 2
    /\ signal = "BUY"
    /\ position.open
    /\ position.entry # R(df[i].close)

\* C2: a SELL with an open position realizes pnl = (close - entry) * size,
\* adds it to the balance, appends it to the trade log and clears the
\* position; a position entered below the selling close increases the
\* balance; and a run over strictly increasing closes that got BUY on its
\* first step and SELL on its last reports total_return > 0.
C2_SellRealizesPnl ==
    [][/\ (i' = i + 1 /\ signal' = "SELL" /\ position.open) =>
            LET pnl == RMul(RSub(CurClose, position.entry), position.size)
            IN  /\ balance' = RAdd(balance, pnl)
                /\ trades' = Append(trades, pnl)
                /\ position' = NoPosition
                /\ RLt(position.entry, CurClose) => RLt(balance, balance')
       /\ (bt_pc' = "done" /\ bt_pc = "loop" /\ Len(df) >= 2 /\ StrictlyIncreasing
              /\ signal0 = "BUY" /\ signal = "SELL") =>
            RLt(Zero, report'.total_return)]_vars

\* C2 witness: the report of a run that bought first and sold last on rising closes,
\* with a winning closed trade.
C2_Witness ==
    /\ bt_pc = "done"
    /\ Len(df) >= 2
    /\ StrictlyIncreasing
    /\ signal0 = "BUY"
    /\ signal = "SELL"
    /\ trades # <<>>
    /\ RLt(Zero, trades[Len(trades)])
    /\ RLt(Zero, report.total_return)

\* C3: the report is computed from closed trades only: final_balance is the
\* initial capital plus the sum of the logged pnl, total_return is its relative
\* change in percent, the trade count is the length of the log, win_rate is
\* the share of logged pnl > 0 and 0 for an empty log; a position still open
\* at the end changes none of them.
C3_ReportFromClosedTrades ==
    bt_pc = "done" =>
        LET n == Len(trades)
            won == Cardinality({k \in 1..n : RLt(Zero, trades[k])})
        IN  /\ report.final_balance = RAdd(initial_capital, RSum(trades))
            /\ RMul(report.total_return, initial_capital)
                 = RMul(R(100), RSub(report.final_balance, initial_capital))
            /\ report.trades = n
            /\ n = 0 => report.win_rate = Zero
            /\ n > 0 => RMul(report.win_rate, R(n)) = R(won)

\* C3 witness: a report made with a position still open after a closed trade.
C3_Witness ==
    /\ bt_pc = "done"
    /\ position.open
    /\ Len(trades) >= 1
    /\ report.trades = Len(trades)

\* C4: on every step strategy_func is called once and receives exactly the
\* rows up to and including the current one (k rows on the k-th step),
\* whatever the labels of the frame.
C4_StrategySeesExactPrefix ==
    /\ Len(calls) = i
    /\ \A k \in 1..Len(calls) : calls[k] = k

\* With the default RangeIndex (label = position) strategy_func does receive
\* exactly the prefix.
RangeIndexPrefixExact ==
    (\A k \in 1..Len(df) : df[k].idx = k - 1) => C4_StrategySeesExactPrefix

(***************************************************************************)
(* RiskManager                                                             *)
(***************************************************************************)
Symbols == {"BTC", "ETH"}

\* Arguments the calls are made with.  Prices include 0: nothing in the class
\* rejects it.  Balances and sizes straddle the thresholds balance *
\* max_daily_loss and balance * max_position_size of the configurations.
Prices == {R(n) : n \in 0..MaxEntry}
Quantities == {R(1), R(2)}
StopLosses == {R(0), R(1)}
GateBalances == {R(0), R(20), R(40)}
GateSizes == {R(2), R(3)}
SizingBalances == {R(10000)}
Risks == {<<1, 50>>}
StopLossPcts == {<<-1, 50>>, Zero, <<1, 50>>, <<1, 2>>}
\* <<max_daily_loss, max_position_size>> of RiskManager(): the defaults.
Configs == {<< <<1, 20>>, <<1, 10>> >>}

\* min(a, b) of Python: b when b < a, else a.
PyMin(a, b) == IF RLt(b, a) THEN b ELSE a

\* PositionSize without the cap at balance * max_position_size.
PositionSize_Uncapped(account_balance, risk_per_trade, stop_loss_pct, mps) ==
    RDiv(RMul(account_balance, risk_per_trade), stop_loss_pct)

\* calculate_position_size, for stop_loss_pct # 0.
PositionSize(account_balance, risk_per_trade, stop_loss_pct, mps) ==
    LET risk_amount == RMul(account_balance, risk_per_trade)
        position_size == RDiv(risk_amount, stop_loss_pct)
        max_position == RMul(account_balance, mps)
    IN  PyMin(position_size, max_position)

\* CanOpen with the loss limit compared by > instead of >=.
CanOpen_StrictLimit(loss, mdl, mps, position_size, account_balance) ==
    IF RLt(RMul(account_balance, mdl), loss) THEN FALSE
    ELSE IF RLt(RMul(account_balance, mps), position_size) THEN FALSE
    ELSE TRUE

\* The value can_open_position returns.
CanOpen(loss, mdl, mps, position_size, account_balance) ==
    IF RLe(RMul(account_balance, mdl), loss) THEN FALSE
    ELSE IF RLt(RMul(account_balance, mps), position_size) THEN FALSE
    ELSE TRUE

\* The dict add_position stores.
NewPosition(entry_price, quantity, stop_loss) ==
    [entry_price |-> entry_price,
     quantity    |-> quantity,
     stop_loss   |-> stop_loss,
     take_profit |-> RMul(entry_price, <<21, 20>>)]

\* TablePut that keeps a position the symbol already has (setdefault).
TablePut_KeepsExisting(table, symbol, pos) ==
    [s \in DOMAIN table \cup {symbol} |-> IF s \in DOMAIN table THEN table[s] ELSE pos]

\* self.positions[symbol] = pos
TablePut(table, symbol, pos) ==
    [s \in DOMAIN table \cup {symbol} |-> IF s = symbol THEN pos ELSE table[s]]

\* TableDel that forgets to delete.
TableDel_Keeps(table, symbol) == table

\* del self.positions[symbol]
TableDel(table, symbol) == [s \in DOMAIN table \ {symbol} |-> table[s]]

\* StopLossHit that triggers only strictly below the stop.
StopLossHit_Strict(table, symbol, current_price) ==
    IF symbol \notin DOMAIN table THEN FALSE
    ELSE RLt(current_price, table[symbol].stop_loss)

\* The value check_stop_loss returns.
StopLossHit(table, symbol, current_price) ==
    IF symbol \notin DOMAIN table THEN FALSE
    ELSE RLe(current_price, table[symbol].stop_loss)

\* The value check_take_profit returns.
TakeProfitHit(table, symbol, current_price) ==
    IF symbol \notin DOMAIN table THEN FALSE
    ELSE RLe(table[symbol].take_profit, current_price)

\* pnl of close_position
ClosePnl(pos, exit_price) == RMul(RSub(exit_price, pos.entry_price), pos.quantity)

\* pnl_pct of close_position, for entry_price # 0
ClosePnlPct(pos, exit_price) ==
    RMul(RDiv(RSub(exit_price, pos.entry_price), pos.entry_price), R(100))

\* LossAfter that nets every pnl, so that a profit reduces the recorded loss.
LossAfter_Net(loss, pnl) == RSub(loss, pnl)

\* self.current_loss after `if pnl < 0: self.current_loss += abs(pnl)`
LossAfter(loss, pnl) == IF RLt(pnl, Zero) THEN RAdd(loss, RAbs(pnl)) ELSE loss

RMInit ==
    /\ \E c \in Configs : RMConstructed(c[1], c[2])
    /\ BTConstructed(R(1), <<>>)
    /\ IndIdle

CalculatePositionSize(account_balance, risk_per_trade, stop_loss_pct) ==
    /\ last' = IF IsZero(stop_loss_pct)
               THEN [Outcome("calculate_position_size") EXCEPT !.raised = TRUE]
               ELSE [Outcome("calculate_position_size") EXCEPT
                        !.num = PositionSize(account_balance, risk_per_trade,
                                             stop_loss_pct, max_position_size)]
    /\ UNCHANGED <<max_daily_loss, max_position_size, current_loss, positions>>
    /\ UNCHANGED btvars
    /\ UNCHANGED indvars

CanOpenPosition(symbol, position_size, account_balance) ==
    /\ last' = [Outcome("can_open_position") EXCEPT
                   !.bool = CanOpen(current_loss, max_daily_loss, max_position_size,
                                    position_size, account_balance)]
    /\ UNCHANGED <<max_daily_loss, max_position_size, current_loss, positions>>
    /\ UNCHANGED btvars
    /\ UNCHANGED indvars

AddPosition(symbol, entry_price, quantity, stop_loss) ==
    /\ positions' = TablePut(positions, symbol, NewPosition(entry_price, quantity, stop_loss))
    /\ last' = [Outcome("add_position") EXCEPT !.had = symbol \in DOMAIN positions]
    /\ UNCHANGED <<max_daily_loss, max_position_size, current_loss>>
    /\ UNCHANGED btvars
    /\ UNCHANGED indvars

CheckStopLoss(symbol, current_price) ==
    /\ last' = [Outcome("check_stop_loss") EXCEPT
                   !.had = symbol \in DOMAIN positions,
                   !.bool = StopLossHit(positions, symbol, current_price)]
    /\ UNCHANGED <<max_daily_loss, max_position_size, current_loss, positions>>
    /\ UNCHANGED btvars
    /\ UNCHANGED indvars

CheckTakeProfit(symbol, current_price) ==
    /\ last' = [Outcome("check_take_profit") EXCEPT
                   !.had = symbol \in DOMAIN positions,
                   !.bool = TakeProfitHit(positions, symbol, current_price)]
    /\ UNCHANGED <<max_daily_loss, max_position_size, current_loss, positions>>
    /\ UNCHANGED btvars
    /\ UNCHANGED indvars

ClosePosition(symbol, exit_price) ==
    /\ IF symbol \notin DOMAIN positions
       THEN \* return {}
            /\ last' = Outcome("close_position")
            /\ UNCHANGED <<current_loss, positions>>
       ELSE LET pos == positions[symbol]
                pnl == ClosePnl(pos, exit_price)
            IN  IF IsZero(pos.entry_price)
                THEN \* ZeroDivisionError in pnl_pct, before anything is written
                     /\ last' = [Outcome("close_position") EXCEPT
                                    !.had = TRUE, !.raised = TRUE]
                     /\ UNCHANGED <<current_loss, positions>>
                ELSE /\ current_loss' = LossAfter(current_loss, pnl)
                     /\ RLe(current_loss', R(MaxLoss))
                     /\ positions' = TableDel(positions, symbol)
                     /\ last' = [Outcome("close_position") EXCEPT
                                    !.had = TRUE,
                                    !.empty = FALSE,
                                    !.symbol = symbol,
                                    !.pnl = pnl,
                                    !.pnl_pct = ClosePnlPct(pos, exit_price),
                                    !.quantity = pos.quantity]
    /\ UNCHANGED <<max_daily_loss, max_position_size>>
    /\ UNCHANGED btvars
    /\ UNCHANGED indvars

RMNext ==
    \/ \E b \in SizingBalances, r \in Risks, p \in StopLossPcts : CalculatePositionSize(b, r, p)
    \/ \E s \in Symbols, z \in GateSizes, b \in GateBalances : CanOpenPosition(s, z, b)
    \/ \E s \in Symbols, e \in Prices, q \in Quantities, sl \in StopLosses : AddPosition(s, e, q, sl)
    \/ \E s \in Symbols, p \in Prices : CheckStopLoss(s, p)
    \/ \E s \in Symbols, p \in Prices : CheckTakeProfit(s, p)
    \/ \E s \in Symbols, p \in Prices : ClosePosition(s, p)

SpecRisk == RMInit /\ [][RMNext]_vars

(***************************************************************************)
(* Claims about RiskManager, checked under SpecRisk.                       *)
(***************************************************************************)
\* The calls leave the loss accumulator and the position table alone.
RiskStateUnchanged == current_loss' = current_loss /\ positions' = positions

\* C5: whenever calculate_position_size returns, the result is the smaller of
\* balance * risk_per_trade / stop_loss_pct and balance * max_position_size,
\* so never above balance * max_position_size; for 10000, 0.02, 0.02 and
\* max_position_size = 0.1 it is 1000.
C5_PositionSizeCapped ==
    [][\A b \in SizingBalances, r \in Risks, p \in StopLossPcts :
         (last'.op = "calculate_position_size" /\ ~last'.raised
            /\ CalculatePositionSize(b, r, p)) =>
            LET cap == RMul(b, max_position_size)
                raw == RDiv(RMul(b, r), p)
            IN  /\ RLe(last'.num, cap)
                /\ RLe(last'.num, raw)
                /\ last'.num = raw \/ last'.num = cap
                /\ (b = R(10000) /\ r = <<1, 50>> /\ p = <<1, 50>>
                      /\ max_position_size = <<1, 10>>) => last'.num = R(1000)]_vars

\* C5 witness: the call of the example returned 1000.
C5_Witness ==
    /\ last.op = "calculate_position_size"
    /\ ~last.raised
    /\ max_position_size = <<1, 10>>
    /\ last.num = R(1000)

\* C6: calculate_position_size with stop_loss_pct <= 0 is rejected: it
\* returns no position size and leaves the risk manager state unchanged.
C6_NonPositiveStopLossRejected ==
    [][\A b \in SizingBalances, r \in Risks, p \in StopLossPcts :
         (last'.op = "calculate_position_size" /\ RLe(p, Zero)
            /\ CalculatePositionSize(b, r, p)) =>
            last'.raised /\ RiskStateUnchanged]_vars

\* C7: can_open_position returns false exactly when current_loss >= balance *
\* max_daily_loss or size > balance * max_position_size, whatever the symbol
\* and the position table, and changes neither accumulator nor table.
C7_CanOpenGate ==
    [][\A s \in Symbols, z \in GateSizes, b \in GateBalances :
         (last'.op = "can_open_position" /\ CanOpenPosition(s, z, b)) =>
            /\ ~last'.raised
            /\ last'.bool = FALSE <=>
                  (\/ ~RLt(current_loss, RMul(b, max_daily_loss))
                   \/ ~RLe(z, RMul(b, max_position_size)))
            /\ RiskStateUnchanged]_vars

\* C7 witness: a call rejected for the loss limit alone, the accumulated loss
\* being exactly the limit of one of the balances, while a position is open.
C7_Witness ==
    /\ last.op = "can_open_position"
    /\ last.bool = FALSE
    /\ \E b \in GateBalances : current_loss = RMul(b, max_daily_loss) /\ ~IsZero(b)
    /\ DOMAIN positions # {}

\* C8: for a symbol with no open position close_position returns the empty
\* result and check_stop_loss and check_take_profit return false, none
\* raises, and accumulator and table stay as they are; a close that returned
\* leaves no position for its symbol, so closing it again is that no-op.
C8_NoPositionIsNoOp ==
    [][\A s \in Symbols, p \in Prices :
         /\ (s \notin DOMAIN positions /\ ClosePosition(s, p)) =>
               last'.empty /\ ~last'.raised /\ RiskStateUnchanged
         /\ (s \notin DOMAIN positions /\ CheckStopLoss(s, p)) =>
               ~last'.bool /\ ~last'.raised /\ RiskStateUnchanged
         /\ (s \notin DOMAIN positions /\ CheckTakeProfit(s, p)) =>
               ~last'.bool /\ ~last'.raised /\ RiskStateUnchanged
         /\ (ClosePosition(s, p) /\ ~last'.raised) => s \notin DOMAIN positions']_vars

\* C8 witness: close_position returned the empty result on an instance that
\* has recorded a loss and holds no position.
C8_Witness ==
    /\ last.op = "close_position"
    /\ ~last.had
    /\ last.empty
    /\ ~last.raised
    /\ ~IsZero(current_loss)
    /\ DOMAIN positions = {}

\* What C9 says of one call close_position(s, p) on an open position.
ClosesAsSpecified(s, p) ==
    LET pos == positions[s]
        pnl == RMul(RSub(p, pos.entry_price), pos.quantity)
    IN  /\ ~last'.raised
        /\ ~last'.empty
        /\ last'.symbol = s
        /\ last'.pnl = pnl
        /\ RMul(last'.pnl_pct, pos.entry_price) = RMul(RSub(p, pos.entry_price), R(100))
        /\ last'.quantity = pos.quantity
        /\ current_loss' = IF RLt(pnl, Zero) THEN RSub(current_loss, pnl) ELSE current_loss
        /\ DOMAIN positions' = DOMAIN positions \ {s}
        /\ \A o \in DOMAIN positions' : positions'[o] = positions[o]
        /\ p = pos.entry_price => last'.pnl = Zero /\ last'.pnl_pct = Zero

\* C9: for every open position close_position returns pnl = (exit - entry) *
\* quantity and pnl_pct = (exit - entry) / entry * 100, adds |pnl| to the
\* accumulator exactly when pnl < 0, and removes that position and no other;
\* closing at the entry price yields pnl = 0 and pnl_pct = 0.
C9_CloseReturnsPnl ==
    [][\A s \in Symbols, p \in Prices :
         (s \in DOMAIN positions /\ ClosePosition(s, p)) => ClosesAsSpecified(s, p)]_vars

\* The same for the positions whose entry_price is not 0: there the code does
\* what C9 says.
CloseReturnsPnlNonZeroEntry ==
    [][\A s \in Symbols, p \in Prices :
         (s \in DOMAIN positions /\ ~IsZero(positions[s].entry_price) /\ ClosePosition(s, p))
            => ClosesAsSpecified(s, p)]_vars

\* C10: the table holds at most one position per symbol: add_position stores
\* (or silently replaces) the symbol's position with the given entry_price,
\* quantity, stop_loss and take_profit = 1.05 * entry_price, never raises,
\* leaves the accumulator and the other symbols' positions alone, and does
\* so whatever can_open_position would answer.
C10_AddReplaces ==
    [][\A s \in Symbols, e \in Prices, q \in Quantities, sl \in StopLosses :
         (last'.op = "add_position" /\ AddPosition(s, e, q, sl)) =>
            /\ ~last'.raised
            /\ DOMAIN positions' = DOMAIN positions \cup {s}
            /\ DOMAIN positions' \subseteq Symbols
            /\ positions'[s].entry_price = e
            /\ positions'[s].quantity = q
            /\ positions'[s].stop_loss = sl
            /\ RMul(positions'[s].take_profit, R(100)) = RMul(e, R(105))
            /\ \A o \in DOMAIN positions \ {s} : positions'[o] = positions[o]
            /\ current_loss' = current_loss]_vars

\* C10 witness: add_position has replaced its symbol's position although the
\* accumulated loss makes can_open_position refuse every balance, another
\* symbol's position being open too.
C10_Witness ==
    /\ last.op = "add_position"
    /\ last.had
    /\ Cardinality(DOMAIN positions) = 2
    /\ \A z \in GateSizes, b \in GateBalances :
          ~CanOpen(current_loss, max_daily_loss, max_position_size, z, b)

\* C11: check_stop_loss is true iff the symbol has a position and price <=
\* its stop_loss, check_take_profit is true iff it has one and price >= its
\* take_profit; neither changes the table or the accumulator, so a triggered
\* position is still in the table after the query.
C11_TriggerQueries ==
    [][\A s \in Symbols, p \in Prices :
         /\ (last'.op = "check_stop_loss" /\ CheckStopLoss(s, p)) =>
               /\ ~last'.raised
               /\ last'.bool <=>
                     (s \in DOMAIN positions /\ ~RLt(positions[s].stop_loss, p))
               /\ RiskStateUnchanged
               /\ last'.bool => s \in DOMAIN positions'
         /\ (last'.op = "check_take_profit" /\ CheckTakeProfit(s, p)) =>
               /\ ~last'.raised
               /\ last'.bool <=>
                     (s \in DOMAIN positions /\ ~RLt(p, positions[s].take_profit))
               /\ RiskStateUnchanged
               /\ last'.bool => s \in DOMAIN positions']_vars

\* C11 witness: check_stop_loss has answered true at a price at or below the
\* stop of a position, and the table still holds both symbols' positions.
C11_Witness ==
    /\ last.op = "check_stop_loss"
    /\ last.had
    /\ last.bool
    /\ DOMAIN positions = Symbols
    /\ \A s \in Symbols : positions[s].stop_loss = R(1) /\ positions[s].entry_price = R(2)

\* can_open_position refuses balance b for the loss limit: it refuses even a
\* position of size 0, which the size limit never does.
RefusesForLoss(loss, b) == ~CanOpen(loss, max_daily_loss, max_position_size, Zero, b)

\* The last call was a close_position that returned a pnl < 0.
ReturnedLoss(call) ==
    call.op = "close_position" /\ ~call.raised /\ ~call.empty /\ RLt(call.pnl, Zero)

\* C14: no call decreases the loss accumulator; a call changes it only by
\* adding |pnl| when it is a close_position that returned pnl < 0, so it is
\* the sum of those |pnl| since construction; and once can_open_position
\* refuses a balance b for the loss limit it refuses every balance <= b after
\* any further call, profitable closes included.
C14_LossNeverDecreases ==
    [][/\ RLe(current_loss, current_loss')
       /\ current_loss' = IF ReturnedLoss(last')
                          THEN RAdd(current_loss, RAbs(last'.pnl))
                          ELSE current_loss
       /\ \A b \in GateBalances, c \in GateBalances :
             (RLe(c, b) /\ RefusesForLoss(current_loss, b)) =>
                ~CanOpen(current_loss', max_daily_loss', max_position_size', Zero, c)]_vars

\* C14 witness: a profitable close has returned on an instance that has
\* recorded a loss, and can_open_position still refuses a positive balance
\* for the loss limit.
C14_Witness ==
    /\ last.op = "close_position"
    /\ ~last.empty
    /\ RLt(Zero, last.pnl)
    /\ RLt(Zero, current_loss)
    /\ \E b \in GateBalances : ~IsZero(b) /\ RefusesForLoss(current_loss, b)

(***************************************************************************)
(* TechnicalIndicators                                                     *)
(***************************************************************************)
\* The price series: up to MaxSeries values.  Position k of the program
\* (prices.iloc[k], counted from 0) is element k + 1 of the sequence.
Series == UNION {[1..n -> 0..MaxValue] : n \in 0..MaxSeries}

\* prices.iloc[k]
At(prices, k) == prices[k + 1]

\* prices.iloc[a:b].min() for 0 <= a < b <= len(prices)
RECURSIVE SliceMin(_, _, _)
SliceMin(prices, a, b) ==
    IF b = a + 1 THEN At(prices, a)
    ELSE LET m == SliceMin(prices, a + 1, b)
         IN  IF At(prices, a) < m THEN At(prices, a) ELSE m

\* prices.iloc[a:b].max() for 0 <= a < b <= len(prices)
RECURSIVE SliceMax(_, _, _)
SliceMax(prices, a, b) ==
    IF b = a + 1 THEN At(prices, a)
    ELSE LET m == SliceMax(prices, a + 1, b)
         IN  IF At(prices, a) > m THEN At(prices, a) ELSE m

\* prices.iloc[i] == prices.iloc[i-window:i+window].min(); the slice of a
\* zero window is empty, its min is NaN and the comparison is false.
IsSupport(prices, c, window) ==
    window > 0 /\ At(prices, c) = SliceMin(prices, c - window, c + window)

\* prices.iloc[i] == prices.iloc[i-window:i+window].max()
IsResistance(prices, c, window) ==
    window > 0 /\ At(prices, c) = SliceMax(prices, c - window, c + window)

\* The list `support` after the loop has run over i = from, ..., to - 1.
RECURSIVE SupportFrom(_, _, _, _)
SupportFrom(prices, window, from, to) ==
    IF from >= to THEN <<>>
    ELSE (IF IsSupport(prices, from, window) THEN <<<<from, At(prices, from)>>>> ELSE <<>>)
         \o SupportFrom(prices, window, from + 1, to)

\* The list `resistance` after the loop has run over i = from, ..., to - 1.
RECURSIVE ResistanceFrom(_, _, _, _)
ResistanceFrom(prices, window, from, to) ==
    IF from >= to THEN <<>>
    ELSE (IF IsResistance(prices, from, window) THEN <<<<from, At(prices, from)>>>> ELSE <<>>)
         \o ResistanceFrom(prices, window, from + 1, to)

\* The inputs of one call are drawn at the start.
IndInit ==
    /\ \E prices \in Series, window \in 0..MaxWindow,
          fast \in 1..MaxSpan, slow \in 1..MaxSpan, sig \in 1..MaxSpan :
          ind_call = IndicatorCall(prices, window, fast, slow, sig)
    /\ ind_ret = NoIndicatorResult
    /\ BTConstructed(R(1), <<>>)
    /\ RMConstructed(<<1, 20>>, <<1, 10>>)

\* identify_support_resistance(prices, window): for i in range(window, len(prices) - window)
IdentifySupportResistance ==
    /\ ind_call.op = "none"
    /\ LET prices == ind_call.prices
           window == ind_call.window
       IN  ind_ret' = [NoIndicatorResult EXCEPT
              !.support = SupportFrom(prices, window, window, Len(prices) - window),
              !.resistance = ResistanceFrom(prices, window, window, Len(prices) - window)]
    /\ ind_call' = [ind_call EXCEPT !.op = "identify_support_resistance"]
    /\ UNCHANGED btvars
    /\ UNCHANGED rmvars

\* alpha = 2 / (span + 1) of ewm(span=...)
Alpha(span) == RDiv(R(2), R(span + 1))

\* prices.ewm(span=span).mean() with the defaults of pandas (adjust=True,
\* min_periods=0): the value at position t is the weighted average of
\* x[t], x[t-1], ..., x[0] with weights 1, (1-alpha), ..., (1-alpha)^t.
\* EwmNum and EwmDen are its numerator and denominator at position t.
RECURSIVE EwmNum(_, _, _)
EwmNum(x, span, t) ==
    IF t = 0 THEN At(x, 0)
    ELSE RAdd(At(x, t), RMul(RSub(R(1), Alpha(span)), EwmNum(x, span, t - 1)))

RECURSIVE EwmDen(_, _)
EwmDen(span, t) ==
    IF t = 0 THEN R(1)
    ELSE RAdd(R(1), RMul(RSub(R(1), Alpha(span)), EwmDen(span, t - 1)))

EwmMean(x, span) ==
    [k \in 1..Len(x) |-> RDiv(EwmNum(x, span, k - 1), EwmDen(span, k - 1))]

\* a - b of two series of the same length
SeriesSub(a, b) == [k \in 1..Len(a) |-> RSub(a[k], b[k])]

\* calculate_macd(prices, fast, slow, signal)
CalculateMacd ==
    /\ ind_call.op = "none"
    /\ LET prices == [k \in 1..Len(ind_call.prices) |-> R(ind_call.prices[k])]
           ema_fast == EwmMean(prices, ind_call.fast)
           ema_slow == EwmMean(prices, ind_call.slow)
           macd_line == SeriesSub(ema_fast, ema_slow)
           signal_line == EwmMean(macd_line, ind_call.signal)
       IN  ind_ret' = [NoIndicatorResult EXCEPT
              !.macd_line = macd_line,
              !.signal_line = signal_line,
              !.histogram = SeriesSub(macd_line, signal_line)]
    /\ ind_call' = [ind_call EXCEPT !.op = "calculate_macd"]
    /\ UNCHANGED btvars
    /\ UNCHANGED rmvars

IndNext == IdentifySupportResistance \/ CalculateMacd

SpecIndicators == IndInit /\ [][IndNext]_vars

(***************************************************************************)
(* Claims about TechnicalIndicators, checked under SpecIndicators.         *)
(***************************************************************************)
\* The positions of the series within distance w of position i.
Around(prices, c, w) == {j \in 0..(Len(prices) - 1) : c - j <= w /\ j - c <= w}

\* The reported pairs carry increasing positions.
IncreasingPositions(levels) == \A k \in 1..(Len(levels) - 1) : levels[k][1] < levels[k + 1][1]

\* C12: identify_support_resistance reports only symmetric local extrema:
\* a reported support at i is <= every price at distance <= window of i, a
\* reported resistance is >= every such price; each list is in increasing
\* index order.
C12_SymmetricExtrema ==
    ind_call.op = "identify_support_resistance" =>
        LET prices == ind_call.prices
            w == ind_call.window
        IN  /\ \A k \in 1..Len(ind_ret.support) :
                  \A j \in Around(prices, ind_ret.support[k][1], w) :
                     ind_ret.support[k][2] <= At(prices, j)
            /\ \A k \in 1..Len(ind_ret.resistance) :
                  \A j \in Around(prices, ind_ret.resistance[k][1], w) :
                     ind_ret.resistance[k][2] >= At(prices, j)
            /\ IncreasingPositions(ind_ret.support)
            /\ IncreasingPositions(ind_ret.resistance)

\* What the code does guarantee: position i (window <= i < len - window) is
\* reported as support iff its price is <= the prices at i - window, ...,
\* i + window - 1 (the price at i + window is not looked at), likewise for
\* resistance; the pair carries the price at i; positions increase; a
\* plateau reports each of its qualifying positions.
ExtremaOfHalfOpenWindow ==
    ind_call.op = "identify_support_resistance" =>
        LET prices == ind_call.prices
            w == ind_call.window
            n == Len(prices)
            Near(c) == (c - w)..(c + w - 1)
            Reported(levels) == {levels[k][1] : k \in 1..Len(levels)}
        IN  /\ Reported(ind_ret.support) =
                  {c \in w..(n - w - 1) :
                      w > 0 /\ \A j \in Near(c) : At(prices, c) <= At(prices, j)}
            /\ Reported(ind_ret.resistance) =
                  {c \in w..(n - w - 1) :
                      w > 0 /\ \A j \in Near(c) : At(prices, c) >= At(prices, j)}
            /\ \A k \in 1..Len(ind_ret.support) :
                  ind_ret.support[k][2] = At(prices, ind_ret.support[k][1])
            /\ \A k \in 1..Len(ind_ret.resistance) :
                  ind_ret.resistance[k][2] = At(prices, ind_ret.resistance[k][1])
            /\ IncreasingPositions(ind_ret.support)
            /\ IncreasingPositions(ind_ret.resistance)

\* The EMA of the standard recursion: E[0] = x[0], E[t] = alpha * x[t] +
\* (1 - alpha) * E[t-1].
RECURSIVE RecursiveEmaAt(_, _, _)
RecursiveEmaAt(x, span, t) ==
    IF t = 0 THEN At(x, 0)
    ELSE RAdd(RMul(Alpha(span), At(x, t)),
              RMul(RSub(R(1), Alpha(span)), RecursiveEmaAt(x, span, t - 1)))

RecursiveEma(x, span) == [k \in 1..Len(x) |-> RecursiveEmaAt(x, span, k - 1)]

\* The price arguments of the call as numbers.
CallPrices == [k \in 1..Len(ind_call.prices) |-> R(ind_call.prices[k])]

\* C13: in calculate_macd every EMA is the standard recursion seeded from the
\* first value with alpha = 2 / (span + 1); the MACD line is EMA(fast) -
\* EMA(slow), the signal line that EMA with span = signal of the MACD line,
\* the histogram MACD line - signal line at every index.
C13_MacdIsRecursiveEma ==
    ind_call.op = "calculate_macd" =>
        /\ ind_ret.macd_line = SeriesSub(RecursiveEma(CallPrices, ind_call.fast),
                                         RecursiveEma(CallPrices, ind_call.slow))
        /\ ind_ret.signal_line = RecursiveEma(ind_ret.macd_line, ind_call.signal)
        /\ ind_ret.histogram = SeriesSub(ind_ret.macd_line, ind_ret.signal_line)

\* b to the power e
RECURSIVE RPow(_, _)
RPow(b, e) == IF e = 0 THEN R(1) ELSE RMul(b, RPow(b, e - 1))

\* The weighted average of x[t], ..., x[0] with weights (1 - alpha)^0, ...,
\* (1 - alpha)^t.
WeightedMean(x, span, t) ==
    LET w == RSub(R(1), Alpha(span))
    IN  RDiv(RSum([k \in 1..(t + 1) |-> RMul(RPow(w, k - 1), At(x, t - (k - 1)))]),
             RSum([k \in 1..(t + 1) |-> RPow(w, k - 1)]))

WeightedEma(x, span) == [k \in 1..Len(x) |-> WeightedMean(x, span, k - 1)]

\* What the code does compute: the same three lines with every EMA the
\* weighted average over the whole history (pandas' adjusted weights), which
\* starts at the first value too but is not the recursion; the lines are as
\* long as the price series.
MacdIsWeightedEma ==
    ind_call.op = "calculate_macd" =>
        /\ ind_ret.macd_line = SeriesSub(WeightedEma(CallPrices, ind_call.fast),
                                         WeightedEma(CallPrices, ind_call.slow))
        /\ ind_ret.signal_line = WeightedEma(ind_ret.macd_line, ind_call.signal)
        /\ \A k \in 1..Len(CallPrices) :
              ind_ret.histogram[k] = RSub(ind_ret.macd_line[k], ind_ret.signal_line[k])
        /\ Len(ind_ret.histogram) = Len(CallPrices)
        /\ Len(CallPrices) > 0 =>
              ind_ret.macd_line[1] = Zero /\ ind_ret.signal_line[1] = Zero

====
